---- MODULE Spec2Model ----
(***************************************************************************)
(* Model of custom_dict.Dictionary (src/custom_dict.py): a hash map whose  *)
(* buckets are lists of (key, value, hash) entries, with bucket-level      *)
(* linear probing in _get_bucket_index and load-factor driven resizing.    *)
(*                                                                         *)
(* Conventions.  Python lists are 0-based, TLA+ sequences 1-based: bucket  *)
(* index i of the code is buckets[i + 1] here.  load_factor is a float in  *)
(* the code; it is kept as an exact fraction <<numerator, denominator>>    *)
(* and every comparison is cross-multiplied.  A raised exception is the    *)
(* err field of an outcome: "none", "KeyError" or "ZeroDivisionError".     *)
(***************************************************************************)
EXTENDS Integers, Sequences, FiniteSets, TLC

\* ------------------------------------------------------------------ bounds
MaxSize == 3        \* __setitem__ is not called once size has reached this
MaxBatch == 2       \* longest **kwargs mapping given to the constructor

\* ------------------------------------------------------------ input domains
Values == {"v1", "v2"}
HashValues == {0, 1}
StrKeysOf(names) == {[type |-> "str", val |-> n] : n \in names}
NumKeys == {[type |-> "int", val |-> 1], [type |-> "float", val |-> 1]}

\* The table under set, get, delete, contains, len and iteration.
StrNames == {1}
Keys == NumKeys \cup StrKeysOf(StrNames)
InitialCapacities == {1, 2, 4}
LoadFactors == {<<2, 3>>, <<1, 2>>}

\* The constructor on its own, with a wider batch and wider arguments.
BatchNames == {1, 2, 3}
BatchKeys == StrKeysOf(BatchNames)
BatchCapacities == {1, 2, 3, 4, 8}
BatchLoadFactors == {<<2, 3>>, <<1, 2>>, <<3, 4>>}

VARIABLES
    buckets,            \* self.buckets
    size,               \* self.size
    capacity,           \* self.capacity
    load_factor,        \* self.load_factor, <<numerator, denominator>>
    hashOf,             \* hash() of each str key (fixed for a process)
    expected,           \* per key: "never" set, the last value set, or "gone"
    result              \* the last call and its outcome

vars == <<buckets, size, capacity, load_factor, hashOf, expected, result>>

\* ----------------------------------------------------------------- keys
\* Python's ==: 1 == 1.0 is True, a str never equals a number.
KeyEq(a, b) == /\ (a.type = "str") = (b.type = "str")
               /\ a.val = b.val

\* Python's type(a) is type(b).
SameType(a, b) == a.type = b.type

\* Python's hash(): hash(n) = n for a small non-negative int, hash(1.0) = 1,
\* and the hash of a str is whatever the process's hash seed makes it.
hash(key) == IF key.type = "str" THEN hashOf[key.val] ELSE key.val

\* --------------------------------------------------------- capacity search
\* A slip of the loop test: <= for <, one doubling too many when
\* previous_capacity * load_factor equals size.
RECURSIVE define_potential_capacity_increase_le(_, _, _)
define_potential_capacity_increase_le(previous_capacity, lf, sz) ==
    IF previous_capacity * lf[1] <= sz * lf[2]
    THEN define_potential_capacity_increase_le(previous_capacity * 2, lf, sz)
    ELSE previous_capacity

RECURSIVE define_potential_capacity_increase(_, _, _)
define_potential_capacity_increase(previous_capacity, lf, sz) ==
    IF previous_capacity * lf[1] < sz * lf[2]
    THEN define_potential_capacity_increase(previous_capacity * 2, lf, sz)
    ELSE previous_capacity

\* A slip of the loop test: >= for >, one halving too many when half the
\* capacity times load_factor equals size.
RECURSIVE define_potential_capacity_decrease_ge(_, _, _, _)
define_potential_capacity_decrease_ge(num, den, lf, sz) ==
    IF num < den
    THEN 0
    ELSE IF num * lf[1] >= sz * 2 * den * lf[2]
         THEN define_potential_capacity_decrease_ge(num, den * 2, lf, sz)
         ELSE num \div den

\* previous_capacity /= 2 makes it a float: it is num / den here.  Once the
\* value is below 1 the loop can only halve it further, and int() of the
\* final value is 0 (with size = 0 the loop ends by float underflow).
RECURSIVE define_potential_capacity_decrease(_, _, _, _)
define_potential_capacity_decrease(num, den, lf, sz) ==
    IF num < den
    THEN 0
    ELSE IF num * lf[1] > sz * 2 * den * lf[2]
         THEN define_potential_capacity_decrease(num, den * 2, lf, sz)
         ELSE num \div den

\* ------------------------------------------------------------------ resize
\* The loops below run over up to 256 buckets; each is written by halving
\* its range (left half first, so the order of the loop is kept) to keep
\* the evaluation shallow.

\* The entries of all buckets, buckets in index order, entries in storage
\* order: for bucket in self.buckets: for ... in bucket.
RECURSIVE Flatten(_)
Flatten(bs) ==
    IF bs = <<>> THEN <<>>
    ELSE IF Len(bs) = 1 THEN bs[1]
    ELSE LET half == Len(bs) \div 2
         IN  Flatten(SubSeq(bs, 1, half)) \o Flatten(SubSeq(bs, half + 1, Len(bs)))

\* [[] for _ in range(n)]
RECURSIVE EmptyBuckets(_)
EmptyBuckets(n) ==
    IF n = 0 THEN <<>>
    ELSE IF n = 1 THEN << <<>> >>
    ELSE EmptyBuckets(n \div 2) \o EmptyBuckets(n - (n \div 2))

\* A slip of the rehash loop: insert(0, ...) for append, which reverses the
\* order of the entries that meet in one new bucket.
RECURSIVE Rehash_prepend(_, _, _)
Rehash_prepend(entries, new_buckets, new_capacity) ==
    IF entries = <<>>
    THEN new_buckets
    ELSE IF Len(entries) = 1
    THEN LET key == entries[1][1]
             value == entries[1][2]
             bucket_index == hash(key) % new_capacity
         IN  [new_buckets EXCEPT ![bucket_index + 1] =
                                   << <<key, value, hash(key)>> >> \o @]
    ELSE LET half == Len(entries) \div 2
             done == Rehash_prepend(SubSeq(entries, 1, half), new_buckets,
                                    new_capacity)
         IN  IF Len(done) = Len(new_buckets)
             THEN Rehash_prepend(SubSeq(entries, half + 1, Len(entries)), done,
                                 new_capacity)
             ELSE done

\* The rehash loop of _resize: each entry, in the order met, is appended to
\* new_buckets[hash(key) % new_capacity] with its hash recomputed.
RECURSIVE Rehash(_, _, _)
Rehash(entries, new_buckets, new_capacity) ==
    IF entries = <<>>
    THEN new_buckets
    ELSE IF Len(entries) = 1
    THEN LET key == entries[1][1]
             value == entries[1][2]
             bucket_index == hash(key) % new_capacity
         IN  [new_buckets EXCEPT ![bucket_index + 1] =
                                   Append(@, <<key, value, hash(key)>>)]
    ELSE LET half == Len(entries) \div 2
             done == Rehash(SubSeq(entries, 1, half), new_buckets, new_capacity)
         IN  \* the test is always true: it has the left half evaluated first
             IF Len(done) = Len(new_buckets)
             THEN Rehash(SubSeq(entries, half + 1, Len(entries)), done,
                         new_capacity)
             ELSE done

\* Outcome of _resize: the new bucket array and capacity, or the exception
\* raised by hash(key) % new_capacity before anything is assigned.
_resize(bs, cap, sz, lf, smaller) ==
    LET new_capacity == IF smaller
                        THEN define_potential_capacity_decrease(cap, 1, lf, sz)
                        ELSE define_potential_capacity_increase(cap, lf, sz)
    IN  IF new_capacity = 0 /\ Flatten(bs) # <<>>
        THEN [err |-> "ZeroDivisionError", buckets |-> bs, capacity |-> cap]
        ELSE [err |-> "none",
              buckets |-> Rehash(Flatten(bs), EmptyBuckets(new_capacity),
                                 new_capacity),
              capacity |-> new_capacity]

_capacity_recalculation(bs, cap, sz, lf, increased) ==
    IF sz * lf[2] >= lf[1] * cap
    THEN _resize(bs, cap, sz, lf, increased)
    ELSE [err |-> "none", buckets |-> bs, capacity |-> cap]

\* ------------------------------------------------------------ bucket index
HasSameTypeKey(bucket, key) ==
    \E i \in 1..Len(bucket) : KeyEq(bucket[i][1], key) /\ SameType(bucket[i][1], key)

\* A slip of the probing loop: the home bucket is returned whatever it
\* holds (chaining instead of probing).
Probe_home(bs, cap, key, initial_index, bucket_index) ==
    [err |-> "none", index |-> bucket_index]

RECURSIVE Probe(_, _, _, _, _)
Probe(bs, cap, key, initial_index, bucket_index) ==
    LET bucket == bs[bucket_index + 1]
        next_index == (bucket_index + 1) % cap
    IN  IF bucket = <<>> \/ HasSameTypeKey(bucket, key)
        THEN [err |-> "none", index |-> bucket_index]
        ELSE IF next_index = initial_index
             THEN [err |-> "KeyError", index |-> next_index]
             ELSE Probe(bs, cap, key, initial_index, next_index)

_get_bucket_index(bs, cap, key) ==
    IF cap = 0
    THEN [err |-> "ZeroDivisionError", index |-> 0]
    ELSE Probe(bs, cap, key, hash(key) % cap, hash(key) % cap)

\* The first position of a bucket whose stored key == key (no type test),
\* 0 when there is none: the scan of __setitem__, __getitem__, __delitem__.
FirstEqual(bucket, key) ==
    LET hits == {i \in 1..Len(bucket) : KeyEq(bucket[i][1], key)}
    IN  IF hits = {} THEN 0 ELSE CHOOSE i \in hits : \A j \in hits : i <= j

RemoveAt(s, i) == SubSeq(s, 1, i - 1) \o SubSeq(s, i + 1, Len(s))

\* Store (key, value) in the bucket at index: overwrite the first entry
\* whose key == key, otherwise append.
Place(bs, index, key, value) ==
    LET bucket == bs[index + 1]
        i == FirstEqual(bucket, key)
    IN  IF i # 0
        THEN [bs EXCEPT ![index + 1][i] = <<key, value, hash(key)>>]
        ELSE [bs EXCEPT ![index + 1] = Append(@, <<key, value, hash(key)>>)]

\* -------------------------------------------------------------- operations
__setitem__(bs, cap, sz, lf, key, value) ==
    IF cap = 0
    THEN [err |-> "ZeroDivisionError", buckets |-> bs, capacity |-> cap,
          size |-> sz + 1]
    ELSE LET r == _capacity_recalculation(bs, cap, sz + 1, lf, FALSE)
             b == _get_bucket_index(r.buckets, r.capacity, key)
         IN  IF r.err # "none"
             THEN [err |-> r.err, buckets |-> bs, capacity |-> cap,
                   size |-> sz + 1]
             ELSE IF b.err # "none"
                  THEN [err |-> b.err, buckets |-> r.buckets,
                        capacity |-> r.capacity, size |-> sz + 1]
                  ELSE [err |-> "none",
                        buckets |-> Place(r.buckets, b.index, key, value),
                        capacity |-> r.capacity, size |-> sz + 1]

__getitem__(bs, cap, key) ==
    LET b == _get_bucket_index(bs, cap, key)
    IN  IF b.err # "none"
        THEN [err |-> b.err, val |-> "None"]
        ELSE LET bucket == bs[b.index + 1]
                 i == FirstEqual(bucket, key)
             IN  IF i # 0
                 THEN [err |-> "none", val |-> bucket[i][2]]
                 ELSE [err |-> "KeyError", val |-> "None"]

__delitem__(bs, cap, sz, lf, key) ==
    LET b == _get_bucket_index(bs, cap, key)
    IN  IF b.err # "none"
        THEN [err |-> b.err, buckets |-> bs, capacity |-> cap, size |-> sz]
        ELSE LET i == FirstEqual(bs[b.index + 1], key)
                 removed == [bs EXCEPT ![b.index + 1] = RemoveAt(@, i)]
                 r == _resize(removed, cap, sz - 1, lf, TRUE)
             IN  IF i = 0
                 THEN [err |-> "KeyError", buckets |-> bs, capacity |-> cap,
                       size |-> sz]
                 ELSE IF sz - 1 < cap \div 4
                      THEN IF r.err # "none"
                           THEN [err |-> r.err, buckets |-> removed,
                                 capacity |-> cap, size |-> sz - 1]
                           ELSE [err |-> "none", buckets |-> r.buckets,
                                 capacity |-> r.capacity, size |-> sz - 1]
                      ELSE [err |-> "none", buckets |-> removed,
                            capacity |-> cap, size |-> sz - 1]

\* try: self[key]; True   except KeyError: False.  Any other exception of
\* __getitem__ propagates.
__contains__(bs, cap, key) ==
    LET g == __getitem__(bs, cap, key)
    IN  IF g.err = "none" THEN [err |-> "none", val |-> "True"]
        ELSE IF g.err = "KeyError" THEN [err |-> "none", val |-> "False"]
        ELSE [err |-> g.err, val |-> "None"]

__len__(sz) == sz

\* The generator run to its end: every (key, value), buckets in index
\* order, entries in storage order.
__iter__(bs) == [i \in 1..Len(Flatten(bs)) |->
                   <<Flatten(bs)[i][1], Flatten(bs)[i][2]>>]

\* ------------------------------------------------------------- constructor
validate_keys(keys) == \A key \in keys : key.type \in {"int", "float", "str"}

\* The loop of __init__ over kwargs.items(), a sequence of <<key, value>>:
\* an overwrite returns from __init__ at once, leaving the rest unplaced.
RECURSIVE InsertAll(_, _, _)
InsertAll(bs, cap, kwargs) ==
    IF kwargs = <<>>
    THEN [err |-> "none", buckets |-> bs]
    ELSE LET key == Head(kwargs)[1]
             value == Head(kwargs)[2]
             b == _get_bucket_index(bs, cap, key)
         IN  IF b.err # "none"
             THEN [err |-> b.err, buckets |-> bs]
             ELSE IF FirstEqual(bs[b.index + 1], key) # 0
                  THEN [err |-> "none", buckets |-> Place(bs, b.index, key, value)]
                  ELSE InsertAll(Place(bs, b.index, key, value), cap, Tail(kwargs))

__init__(initial, lf, kwargs) ==
    LET keys == {kwargs[i][1] : i \in 1..Len(kwargs)}
        sz == Len(kwargs)
        cap == define_potential_capacity_increase(initial, lf, sz)
        ins == InsertAll(EmptyBuckets(cap), cap, kwargs)
    IN  IF ~validate_keys(keys)
        THEN [err |-> "ValueError", buckets |-> <<>>, capacity |-> 0, size |-> 0]
        ELSE [err |-> ins.err, buckets |-> ins.buckets, capacity |-> cap,
              size |-> sz]

\* **kwargs is a dict: its keys are distinct strs, in the caller's order.
Kwargs(names) ==
    {kw \in UNION {[1..n -> StrKeysOf(names) \X Values] : n \in 0..MaxBatch} :
        \A i, j \in 1..Len(kw) : kw[i][1] = kw[j][1] => i = j}

ValueIn(kwargs, key) ==
    IF \E i \in 1..Len(kwargs) : kwargs[i][1] = key
    THEN kwargs[CHOOSE i \in 1..Len(kwargs) : kwargs[i][1] = key][2]
    ELSE "never"

NoKey == [type |-> "none", val |-> 0]

\* arg is the value passed to a set, the initial_capacity passed to the
\* constructor, and 0 for the calls that take only a key.
Outcome(op, key, arg, err, val) ==
    [op |-> op, key |-> key, arg |-> arg, err |-> err, val |-> val]

\* The state a successful Dictionary(initial, lf, **kwargs) leaves.
Constructed(names, capacities, factors) ==
    /\ hashOf \in [names -> HashValues]
    /\ \E initial \in capacities, lf \in factors, kwargs \in Kwargs(names) :
          LET d == __init__(initial, lf, kwargs)
          IN  /\ d.err = "none"
              /\ buckets = d.buckets
              /\ size = d.size
              /\ capacity = d.capacity
              /\ load_factor = lf
              /\ expected = [k \in NumKeys \cup StrKeysOf(names) |->
                                ValueIn(kwargs, k)]
              /\ result = Outcome("init", NoKey, initial, "none", "None")

Init == Constructed(StrNames, InitialCapacities, LoadFactors)

InitBatch == Constructed(BatchNames, BatchCapacities, BatchLoadFactors)

\* ----------------------------------------------------------------- actions
\* d[key] = value
StoreItem(key, value) ==
    /\ LET s == __setitem__(buckets, capacity, size, load_factor, key, value)
       IN  /\ buckets' = s.buckets
           /\ capacity' = s.capacity
           /\ size' = s.size
           /\ expected' = IF s.err = "none"
                          THEN [expected EXCEPT ![key] = value]
                          ELSE expected
           /\ result' = Outcome("set", key, value, s.err, "None")
    /\ UNCHANGED <<load_factor, hashOf>>

SetItem(key, value) ==
    /\ size < MaxSize
    /\ StoreItem(key, value)

\* A slip of the read: the entry found is taken out, as by pop.
GetItem_pop(key) ==
    /\ LET g == __getitem__(buckets, capacity, key)
           d == __delitem__(buckets, capacity, size, load_factor, key)
       IN  /\ result' = Outcome("get", key, 0, g.err, g.val)
           /\ buckets' = d.buckets
           /\ capacity' = d.capacity
           /\ size' = d.size
    /\ UNCHANGED <<load_factor, hashOf, expected>>

GetItem(key) ==
    /\ LET g == __getitem__(buckets, capacity, key)
       IN  result' = Outcome("get", key, 0, g.err, g.val)
    /\ UNCHANGED <<buckets, size, capacity, load_factor, hashOf, expected>>

DelItem(key) ==
    /\ LET d == __delitem__(buckets, capacity, size, load_factor, key)
       IN  /\ buckets' = d.buckets
           /\ capacity' = d.capacity
           /\ size' = d.size
           /\ expected' = IF d.err = "none"
                          THEN [expected EXCEPT ![key] = "gone"]
                          ELSE expected
           /\ result' = Outcome("del", key, 0, d.err, "None")
    /\ UNCHANGED <<load_factor, hashOf>>

Contains(key) ==
    /\ LET c == __contains__(buckets, capacity, key)
       IN  result' = Outcome("contains", key, 0, c.err, c.val)
    /\ UNCHANGED <<buckets, size, capacity, load_factor, hashOf, expected>>

Length ==
    /\ result' = Outcome("len", NoKey, 0, "none", __len__(size))
    /\ UNCHANGED <<buckets, size, capacity, load_factor, hashOf, expected>>

Iterate ==
    /\ result' = Outcome("iter", NoKey, 0, "none", __iter__(buckets))
    /\ UNCHANGED <<buckets, size, capacity, load_factor, hashOf, expected>>

Next ==
    \/ \E key \in Keys, value \in Values : SetItem(key, value)
    \/ \E key \in Keys : GetItem(key)
    \/ \E key \in Keys : DelItem(key)
    \/ \E key \in Keys : Contains(key)
    \/ Length
    \/ Iterate

Spec == Init /\ [][Next]_vars

\* No __delitem__: the table under set and the read operations only.
NextNoDelete ==
    \/ \E key \in Keys, value \in Values : SetItem(key, value)
    \/ \E key \in Keys : GetItem(key)
    \/ \E key \in Keys : Contains(key)

SpecNoDelete == Init /\ [][NextNoDelete]_vars

\* A freshly constructed table under the read operations.
NextBatch ==
    \/ \E key \in BatchKeys : GetItem(key)
    \/ \E key \in BatchKeys : Contains(key)
    \/ Length

SpecBatch == InitBatch /\ [][NextBatch]_vars

\* Two str keys, whose hashes may collide, under every operation.
PairNames == {1, 2}
PairKeys == StrKeysOf(PairNames)

InitPair == Constructed(PairNames, InitialCapacities, LoadFactors)

NextPair ==
    \/ \E key \in PairKeys, value \in Values : SetItem(key, value)
    \/ \E key \in PairKeys : GetItem(key)
    \/ \E key \in PairKeys : DelItem(key)
    \/ \E key \in PairKeys : Contains(key)
    \/ Length
    \/ Iterate

SpecPair == InitPair /\ [][NextPair]_vars

\* ---------------------------------------------------------- test scenarios
\* The two capacity tests of src/tests.py: insert a run of distinct str keys
\* into an empty table, then delete some of them.  The keys are numbered in
\* insertion order.
Inserted == {k \in DOMAIN expected : expected[k] # "never"}
Gone == {k \in DOMAIN expected : expected[k] = "gone"}

EmptyTable(names, initial, lf, hashes) ==
    /\ hashOf \in hashes
    /\ LET d == __init__(initial, lf, <<>>)
       IN  /\ buckets = d.buckets
           /\ size = d.size
           /\ capacity = d.capacity
    /\ load_factor = lf
    /\ expected = [k \in StrKeysOf(names) |-> "never"]
    /\ result = Outcome("init", NoKey, initial, "none", "None")

\* The next key of the run, while nothing has been deleted or has failed.
InsertNext(inserts) ==
    /\ Gone = {}
    /\ result.err = "none"
    /\ Cardinality(Inserted) < inserts
    /\ StoreItem([type |-> "str", val |-> Cardinality(Inserted) + 1], "v1")

\* One of the keys still to delete, once the run is in and until a call
\* fails.
DeleteOne(inserts, deletes, candidates) ==
    /\ Cardinality(Inserted) = inserts
    /\ Cardinality(Gone) < deletes
    /\ result.err = "none"
    /\ \E key \in candidates : DelItem(key)

\* test_load_factor_edge_changes: 7 keys into Dictionary(8, 0.75), then the
\* first 4 of them deleted, in any order; the hashes collide modulo 8 and
\* modulo 16 in every possible pattern over EdgeHashValues.
EdgeCapacity == 8
EdgeInserts == 7
EdgeDeletes == 4
EdgeLoadFactor == <<3, 4>>
EdgeHashValues == {0, 1, 8}

InitEdge ==
    EmptyTable(1..EdgeInserts, EdgeCapacity, EdgeLoadFactor,
               [1..EdgeInserts -> EdgeHashValues])

EdgeInsert == InsertNext(EdgeInserts)

EdgeDelete ==
    DeleteOne(EdgeInserts, EdgeDeletes,
              {k \in StrKeysOf(1..EdgeDeletes) : expected[k] # "gone"})

NextEdge == EdgeInsert \/ EdgeDelete

SpecEdge == InitEdge /\ [][NextEdge]_vars

\* test_memory_usage_and_deletion: 100 keys into Dictionary(), then 50 of
\* them deleted.  Key n hashes to n, except that the last key may hash like
\* the one before it; the deletions take 50 consecutive keys, cyclically,
\* from the first key or from the last but one.
HundredCapacity == 8
HundredInserts == 100
HundredDeletes == 50
HundredLoadFactor == <<2, 3>>

HundredHashes ==
    {[n \in 1..HundredInserts |-> IF n = HundredInserts THEN h ELSE n] :
        h \in {HundredInserts - 1, HundredInserts}}

InitHundred ==
    EmptyTable(1..HundredInserts, HundredCapacity, HundredLoadFactor,
               HundredHashes)

HundredInsert == InsertNext(HundredInserts)

HundredDelete ==
    DeleteOne(HundredInserts, HundredDeletes,
              IF Gone = {}
              THEN StrKeysOf({1, HundredInserts - 1})
              ELSE StrKeysOf({(result.key.val % HundredInserts) + 1}))

NextHundred == HundredInsert \/ HundredDelete

SpecHundred == InitHundred /\ [][NextHundred]_vars

\* ------------------------------------------------------------- properties
Entries == Flatten(buckets)

Got(key) == __getitem__(buckets, capacity, key)

Returns(key, value) == Got(key) = [err |-> "none", val |-> value]

IntKey == [type |-> "int", val |-> 1]
FloatKey == [type |-> "float", val |-> 1]

\* The keys the calls so far have set and not deleted since.
Live == {k \in DOMAIN expected : expected[k] \in Values}

RECURSIVE Pow2(_)
Pow2(n) == IF n = 0 THEN 1 ELSE 2 * Pow2(n - 1)

\* C1: with sets and gets only (no deletes), get(k) returns the value of
\* the most recent set(k), for every key that has been set.
C1_GetReturnsLastSet ==
    \A k \in Keys : expected[k] \in Values => Returns(k, expected[k])

\* C2: once the int key 1 and the float key 1.0 have both been set (no
\* deletes), they are two distinct entries, and get of each returns the
\* value last set for that exact key.
C2_EqualKeysOfDistinctTypes ==
    (expected[IntKey] \in Values /\ expected[FloatKey] \in Values) =>
        /\ \E i \in 1..Len(Entries) : Entries[i][1] = IntKey
        /\ \E i \in 1..Len(Entries) : Entries[i][1] = FloatKey
        /\ Returns(IntKey, expected[IntKey])
        /\ Returns(FloatKey, expected[FloatKey])

\* C3: no two entries of the table have keys that are equal and of the
\* same exact type.
C3_NoDuplicateKeys ==
    \A i, j \in 1..Len(Entries) :
        (KeyEq(Entries[i][1], Entries[j][1]) /\ SameType(Entries[i][1], Entries[j][1]))
            => i = j

\* C4: length() equals the number of entries stored across all buckets.
C4_SizeCountsEntries == __len__(size) = Len(Entries)

\* C5: capacity is a positive integer and there are exactly capacity
\* buckets.
C5_CapacityPositive == capacity >= 1 /\ Len(buckets) = capacity

\* C6: a set call raises nothing, and afterwards get(key) returns the value
\* that was set.
C6_SetNeverFails ==
    result.op = "set" =>
        /\ result.err = "none"
        /\ Returns(result.key, result.arg)

\* C7: for a key that was never inserted, get fails with KeyError and with
\* no other error, and contains returns False.
C7_NeverInsertedNotFound ==
    \A k \in Keys : expected[k] = "never" =>
        /\ Got(k).err = "KeyError"
        /\ __contains__(buckets, capacity, k) = [err |-> "none", val |-> "False"]

\* C8: right after a delete(k) that succeeded, a second delete(k) raises
\* KeyError, get(k) fails with KeyError and contains(k) is False.
C8_SecondDeleteFails ==
    (result.op = "del" /\ result.err = "none") =>
        /\ __delitem__(buckets, capacity, size, load_factor, result.key).err
              = "KeyError"
        /\ Got(result.key).err = "KeyError"
        /\ __contains__(buckets, capacity, result.key)
              = [err |-> "none", val |-> "False"]

\* C9: contains(k) raises nothing and returns True exactly when get(k)
\* succeeds, False exactly when get(k) fails.
C9_ContainsIsTotal ==
    \A k \in Keys :
        LET c == __contains__(buckets, capacity, k)
        IN  /\ c.err = "none"
            /\ c.val \in {"True", "False"}
            /\ (c.val = "True") = (Got(k).err = "none")

\* C10: a table constructed from N distinct pairs has length N, every pair
\* is retrievable, and its capacity is the smallest of initial_capacity,
\* 2 * initial_capacity, 4 * initial_capacity, ... with
\* capacity * load_factor >= N.
C10_BatchConstruction ==
    LET N == Cardinality(Live)
        Enough(c) == c * load_factor[1] >= N * load_factor[2]
    IN  /\ __len__(size) = N
        /\ \A k \in Live : Returns(k, expected[k])
        /\ result.op = "init" =>
              \E j \in 0..capacity :
                  /\ capacity = result.arg * Pow2(j)
                  /\ Enough(capacity)
                  /\ \A i \in 0..(j - 1) : ~Enough(result.arg * Pow2(i))

\* C10 witness: a batch of MaxBatch pairs for which the capacity search
\* had to double the requested capacity more than once.
C10_Witness ==
    /\ result.op = "init"
    /\ Cardinality(Live) = MaxBatch
    /\ capacity >= 4 * result.arg
    /\ \A k \in Live : Returns(k, expected[k])

\* C11: after a construct, set or delete that completed,
\* size / capacity < load_factor holds strictly.
C11_BelowLoadFactor ==
    (result.op \in {"init", "set", "del"} /\ result.err = "none") =>
        /\ capacity > 0
        /\ size * load_factor[2] < load_factor[1] * capacity

\* C12: from an empty table with capacity 8 and load factor 2/3, 100
\* inserted keys give length 100 and capacity 256; then each of 50 deletes
\* succeeds, and they leave length 50 and capacity 128.
C12_HundredKeys ==
    /\ (Cardinality(Inserted) = HundredInserts /\ Gone = {}) =>
           (__len__(size) = 100 /\ capacity = 256)
    /\ result.op = "del" => result.err = "none"
    /\ Cardinality(Gone) = HundredDeletes =>
           (__len__(size) = 50 /\ capacity = 128)

\* C13: from an empty table with capacity 8 and load factor 0.75, 7
\* inserted keys give length 7 and capacity 16; then each delete of one of
\* the first 4 keys succeeds, and the 4 deletes leave length 3 and
\* capacity 8.
C13_EdgeKeys ==
    /\ (Cardinality(Inserted) = EdgeInserts /\ Gone = {}) =>
           (__len__(size) = 7 /\ capacity = 16)
    /\ result.err = "none"
    /\ Cardinality(Gone) = EdgeDeletes =>
           (__len__(size) = 3 /\ capacity = 8)

\* C13 witness: the 4 deletes are done, and the 7 keys include three that
\* share one hash (one bucket after every resize) and two that collide
\* modulo 8 only.
C13_Witness ==
    /\ Cardinality(Gone) = EdgeDeletes
    /\ capacity = 8
    /\ __len__(size) = 3
    /\ \E a, b, c \in 1..EdgeInserts :
          /\ a < b /\ b < c
          /\ hashOf[a] = hashOf[b] /\ hashOf[b] = hashOf[c]
    /\ \E a, b \in 1..EdgeInserts : hashOf[a] = 0 /\ hashOf[b] = 8

\* C14: delete(k) of a key that was never set, or was set and has been
\* deleted since, fails with KeyError and leaves buckets, size and capacity
\* as they were.
C14_DeleteAbsentFails ==
    \A k \in Keys : expected[k] \in {"never", "gone"} =>
        LET d == __delitem__(buckets, capacity, size, load_factor, k)
        IN  /\ d.err = "KeyError"
            /\ d.buckets = buckets
            /\ d.size = size
            /\ d.capacity = capacity

\* C15: a delete(k) that succeeds removes only k: every other key of the
\* same type that get returned before the delete is returned by get with
\* the same value after it, and a delete of that key still succeeds.
C15_DeleteRemovesOnlyK ==
    [][(result'.op = "del" /\ result'.err = "none") =>
          \A k \in PairKeys \ {result'.key} :
              Got(k).err = "none" =>
                  /\ __getitem__(buckets', capacity', k) = Got(k)
                  /\ __delitem__(buckets', capacity', size', load_factor', k).err
                        = "none"]_vars

\* r is the outcome of a resize of the buckets old: nothing raised, one
\* bucket per unit of the new capacity, and bucket j holds exactly the
\* entries of old whose hash(key) % new capacity is j, in the order they are
\* met scanning old, each with its value and with hash(key) as cached hash.
Resized(old, r) ==
    LET entries == Flatten(old)
        new_buckets == r.buckets
        new_capacity == r.capacity
    IN  /\ r.err = "none"
        /\ Len(new_buckets) = new_capacity
        /\ Len(Flatten(new_buckets)) = Len(entries)
        /\ \A j \in 0..(new_capacity - 1) :
              LET InJ(e) == hash(e[1]) % new_capacity = j
                  met == SelectSeq(entries, InJ)
              IN  /\ Len(new_buckets[j + 1]) = Len(met)
                  /\ \A i \in 1..Len(met) :
                        new_buckets[j + 1][i]
                            = <<met[i][1], met[i][2], hash(met[i][1])>>

\* The step is a set that calls _resize: size + 1 has reached the load
\* factor.
GrowStep ==
    /\ result'.op = "set"
    /\ capacity > 0
    /\ (size + 1) * load_factor[2] >= load_factor[1] * capacity

\* The step is a delete that calls _resize: the key was found and size - 1
\* is below a quarter of the capacity.
ShrinkStep ==
    /\ result'.op = "del"
    /\ result'.err # "KeyError"
    /\ capacity > 0
    /\ size - 1 < capacity \div 4

\* C16: every resize, the one a set makes when size + 1 reaches the load
\* factor and the one a delete makes when size - 1 is below a quarter of the
\* capacity, keeps the multiset of (key, value) pairs, puts every entry in
\* bucket hash(key) mod the new capacity with hash(key) as cached hash, in
\* the order met scanning the old buckets, and does not change size (the
\* call changes it by its own 1 only).
C16_ResizePreserves ==
    [][/\ GrowStep =>
              LET r == _resize(buckets, capacity, size + 1, load_factor, FALSE)
              IN  /\ Resized(buckets, r)
                  /\ capacity' = r.capacity
                  /\ size' = size + 1
       /\ ShrinkStep =>
              LET b == _get_bucket_index(buckets, capacity, result'.key)
                  removed == [buckets EXCEPT ![b.index + 1] =
                                 RemoveAt(@, FirstEqual(@, result'.key))]
                  r == _resize(removed, capacity, size - 1, load_factor, TRUE)
              IN  /\ Resized(removed, r)
                  /\ buckets' = r.buckets
                  /\ capacity' = r.capacity
                  /\ size' = size - 1]_vars

\* C16 witness: the delete that shrinks the capacity 16 to 8 has put two
\* entries of distinct hashes, from two old buckets, into one bucket.
C16_Witness ==
    /\ result.op = "del"
    /\ result.err = "none"
    /\ Cardinality(Gone) = EdgeDeletes
    /\ capacity = 8
    /\ \E j \in 1..Len(buckets) :
          /\ Len(buckets[j]) >= 2
          /\ buckets[j][1][3] # buckets[j][2][3]

C18_ReadsChangeNothing ==
    [][result'.op \in {"get", "contains", "len", "iter"} =>
          UNCHANGED <<buckets, size, capacity, load_factor>>]_vars

\* C18 witness: a get has just failed with KeyError on a table that holds
\* entries.
C18_Witness ==
    /\ result.op = "get"
    /\ result.err = "KeyError"
    /\ Entries # <<>>
    /\ capacity > 0

\* C19: iterate yields the entries of the buckets in index order, entries
\* in storage order; exactly one pair for each key set and not deleted
\* since, with the value last set, and no other pair; and as many pairs as
\* length() says.
C19_IterateYieldsLiveKeys ==
    LET pairs == __iter__(buckets)
    IN  /\ Len(pairs) = Len(Entries)
        /\ \A i \in 1..Len(pairs) :
              /\ pairs[i] = <<Entries[i][1], Entries[i][2]>>
              /\ pairs[i][1] \in Live
        /\ \A k \in Live :
              /\ Cardinality({i \in 1..Len(pairs) : pairs[i][1] = k}) = 1
              /\ \E i \in 1..Len(pairs) : pairs[i] = <<k, expected[k]>>
        /\ Len(pairs) = __len__(size)

TypeOK ==
    /\ size \in Nat
    /\ capacity \in Nat
    /\ Len(buckets) \in Nat
====
